---- MODULE Spec2Model ----
(***************************************************************************)
(* Model of api/proxypanel/proxypanel.go: the APIClient that synchronises  *)
(* a proxy node with the panel.  The client's fields are the state, every  *)
(* exported method is an action, and the parsing helpers are operators.    *)
(*                                                                         *)
(* Spec      one caller invokes the methods one after another; `last'      *)
(*           holds the arguments and the results of the call that has just *)
(*           returned until the caller takes them (Return).                *)
(* SpecConc  a polling goroutine runs GetUserList while a reporting        *)
(*           goroutine runs ReportNodeOnlineUsers, one statement that      *)
(*           touches the shared fields at a time.                          *)
(* SpecReports  two goroutines run ReportNodeOnlineUsers; SpecReportsFair  *)
(*           adds the fairness of the scheduler and of the mutex.          *)
(* SpecRepoll   a poll may be followed at once by a second poll that gets  *)
(*           the same payload.                                             *)
(* SpecRules    clients over rule files of several lengths call            *)
(*           GetNodeRule again and again.                                  *)
(***************************************************************************)
EXTENDS Integers, Sequences, FiniteSets, TLC

\* ------------------------------------------------------------------ bounds
MaxLimit      == 2   \* device limits (override and payload) are 0..MaxLimit
MaxOnline     == 2   \* payload online counts are 0..MaxOnline
MaxUsers      == 2   \* records in one user-list payload
MaxSessions   == 2   \* sessions in one online report
MaxRules      == 2   \* panel rules in one rule payload
MaxViolations == 2   \* detect results in one ReportIllegal call
MaxLines      == 3   \* lines of the local rule file
MaxSpare      == 1   \* slots of LocalRuleList's array past its length

VARIABLES
    NodeType,          \* APIClient.NodeType
    DeviceLimit,       \* APIClient.DeviceLimit (the configured override)
    LocalRuleList,     \* APIClient.LocalRuleList: the slice's elements
    spare,             \* the slots of LocalRuleList's array past its length
    LastReportOnline,  \* APIClient.LastReportOnline, a map uid -> count
    access,            \* APIClient.access: TRUE while the mutex is held
    panicked,          \* the process was aborted by a panic
    reported,          \* the list of the latest online report, while no
                       \* user-list parse has touched the map since
    last,              \* the call that has just returned
    again,             \* SpecRepoll: the GetUserList call made right after
                       \* the one in `last', with the same payload
    pc,                \* SpecConc: where the polling and the reporting
                       \* goroutine stand in GetUserList and in
                       \* ReportNodeOnlineUsers
    poll,              \* SpecConc: the locals of the running GetUserList
    report,            \* SpecConc: the argument of the running
                       \* ReportNodeOnlineUsers
    callers            \* SpecReports: where each of two goroutines stands
                       \* in ReportNodeOnlineUsers, and its argument

vars == <<NodeType, DeviceLimit, LocalRuleList, spare, LastReportOnline, access,
          panicked, reported, last, pc, poll, report, callers, again>>

\* ------------------------------------------------------------- data domains
UIDs      == {7, 9}
NodeTypes == {"V2ray", "Trojan", "Shadowsocks", "Unknown"}

\* the node types whose user-list parser reconciles the device limit
Reconciling == {"V2ray", "Trojan"}

\* all sequences over S of length at most n
SeqsUpTo(S, n) == UNION {[1..k -> S] : k \in 0..n}

\* one record of a user-list payload (VMessUser, TrojanUser, SSUser)
PayloadUsers == [UID : UIDs, DeviceLimit : 0..MaxLimit, OnlineCount : 0..MaxOnline]

\* one node-info payload (V2rayNodeInfo, TrojanNodeInfo, ShadowsocksNodeInfo)
PayloadNodes == [ClientLimit : 0..MaxLimit]

\* what the transport hands back for one request: a transport error, or a
\* response with an HTTP status code and a decoded envelope status
NetErr    == [err |-> TRUE, StatusCode |-> 0, Status |-> ""]
Responses == {NetErr} \cup
             [err : {FALSE}, StatusCode : {200, 400, 500}, Status : {"success", "fail"}]

Patterns  == {"good", "bad("}
RuleTypes == {"reg", "regex", "domain"}
PanelRuleIDs == {1, 2}
PanelRules == [ID : PanelRuleIDs, Type : RuleTypes, Pattern : Patterns]
Modes     == {"reject", "allow"}

DetectResults == {[RuleID |-> 1, UID |-> 7], [RuleID |-> 2, UID |-> 9]}
Tenths    == {5, 125}           \* loads in tenths of a percent: 0.5, 12.5
NodeStatuses == [Uptime : {1}, CPU : Tenths, Mem : Tenths, Disk : Tenths]
Traffics  == [UID : UIDs, Upload : {0, 1}, Download : {0, 1}]

\* no report since the last user-list parse (0 is no user id)
NoReport == <<0>>
Idle     == [op |-> "idle"]
\* the goroutines of SpecReports and a goroutine that has not called yet
Reporters == {"A", "B"}
NotCalled == [pc |-> "new", list |-> <<>>, met |-> FALSE]

NoAgain  == [op |-> "none"]
NoPoll   == [users |-> <<>>, i |-> 1, userList |-> <<>>]

\* ------------------------------------------------------------ map helpers
EmptyMap == [u \in {} |-> 0]
MapHas(m, k) == k \in DOMAIN m
MapPut(m, k, v) == [u \in DOMAIN m \cup {k} |-> IF u = k THEN v ELSE m[u]]
MapDelete(m, k) == [u \in DOMAIN m \ {k} |-> m[u]]

\* ---------------------------------------------------------------- helpers
\* Segment whose switch falls through to the Shadowsocks path
SegmentFallThrough(nodeType) ==
    CASE nodeType = "V2ray"  -> <<"v2ray">>
      [] nodeType = "Trojan" -> <<"trojan">>
      [] OTHER               -> <<"ss">>

\* the protocol segment of the endpoint path; <<>> in the default case of
\* the switch on c.NodeType
Segment(nodeType) ==
    CASE nodeType = "V2ray"       -> <<"v2ray">>
      [] nodeType = "Trojan"      -> <<"trojan">>
      [] nodeType = "Shadowsocks" -> <<"ss">>
      [] OTHER                    -> <<>>

\* /api/{segment}/v1/{operation}/{nodeId}
Path(nodeType, operation) == <<"api", Segment(nodeType)[1], "v1", operation>>

Request(method, nodeType, operation, body) ==
    [method |-> method, path |-> Path(nodeType, operation), body |-> body]

\* parseResponse: "nil" when the response is usable
parseResponse(res) ==
    IF res.err THEN "request failed"
    ELSE IF res.StatusCode > 400 THEN "request failed with body"
    ELSE IF res.Status # "success" THEN "Ret invalid"
    ELSE "nil"

\* what parseResponse can make of the transport's answer
Outcomes == {parseResponse(res) : res \in Responses}

Unsupported == "Unsupported Node type"

\* ------------------------------------------------- node-info normalization
\* the override wins when it is > 0, else the payload's value
BaseDeviceLimit(override, payloadLimit) ==
    IF override > 0 THEN override ELSE payloadLimit

\* ParseV2rayNodeResponse, ParseTrojanNodeResponse, ParseSSNodeResponse:
\* <<>> on a decode failure, else <<the node info>>
ParseNodeResponse(nodeType, override, node, malformed) ==
    IF malformed THEN <<>>
    ELSE <<[NodeType |-> nodeType,
            DeviceLimit |-> BaseDeviceLimit(override, node.ClientLimit)]>>

\* ------------------------------------------------- user-list normalization
\* lastOnline := 0; if v, ok := c.LastReportOnline[uid]; ok { lastOnline = v }
LookupOnline(online, uid) == IF MapHas(online, uid) THEN online[uid] ELSE 0

\* Reconcile with the retained count left out of the candidate
ReconcileNoRetained(devicelimit, onlineCount, lastOnline) ==
    LET localDeviceLimit == devicelimit - onlineCount
    IN  IF localDeviceLimit > 0
          THEN [keep |-> TRUE, devicelimit |-> localDeviceLimit]
        ELSE IF lastOnline > 0
          THEN [keep |-> TRUE, devicelimit |-> lastOnline]
        ELSE [keep |-> FALSE, devicelimit |-> devicelimit]

\* Reconcile that omits the user whenever the candidate is not positive
ReconcileDropAtZero(devicelimit, onlineCount, lastOnline) ==
    LET localDeviceLimit == devicelimit - onlineCount + lastOnline
    IN  IF localDeviceLimit > 0
          THEN [keep |-> TRUE, devicelimit |-> localDeviceLimit]
          ELSE [keep |-> FALSE, devicelimit |-> devicelimit]

\* Reconcile that takes the candidate without testing that it is positive
ReconcileUnchecked(devicelimit, onlineCount, lastOnline) ==
    [keep |-> TRUE, devicelimit |-> devicelimit - onlineCount + lastOnline]

\* the reconciliation branch taken when devicelimit > 0 and OnlineCount > 0
Reconcile(devicelimit, onlineCount, lastOnline) ==
    LET localDeviceLimit == devicelimit - onlineCount + lastOnline
    IN  IF localDeviceLimit > 0
          THEN [keep |-> TRUE, devicelimit |-> localDeviceLimit]
        ELSE IF lastOnline > 0
          THEN [keep |-> TRUE, devicelimit |-> lastOnline]
        ELSE [keep |-> FALSE, devicelimit |-> devicelimit]

\* DropStale with the delete left out
DropStaleNever(online, user) == online

\* the else-if branch: a user with no online session loses its entry
DropStale(online, user) ==
    IF user.OnlineCount = 0 /\ MapHas(online, user.UID)
      THEN MapDelete(online, user.UID)
      ELSE online

\* ReconcileUser that uses up the entry it has looked up
ReconcileUserConsume(override, user, online) ==
    LET devicelimit == BaseDeviceLimit(override, user.DeviceLimit)
    IN  IF devicelimit > 0 /\ user.OnlineCount > 0
          THEN LET r == Reconcile(devicelimit, user.OnlineCount,
                                  LookupOnline(online, user.UID))
               IN  [users  |-> IF r.keep
                                 THEN <<[UID |-> user.UID, DeviceLimit |-> r.devicelimit]>>
                                 ELSE <<>>,
                    online |-> IF MapHas(online, user.UID)
                                 THEN MapDelete(online, user.UID) ELSE online]
          ELSE [users  |-> <<[UID |-> user.UID, DeviceLimit |-> devicelimit]>>,
                online |-> DropStale(online, user)]

\* one iteration of the loop of ParseV2rayUserListResponse and of
\* ParseTrojanUserListResponse: the users appended and the map afterwards
ReconcileUser(override, user, online) ==
    LET devicelimit == BaseDeviceLimit(override, user.DeviceLimit)
    IN  IF devicelimit > 0 /\ user.OnlineCount > 0
          THEN LET r == Reconcile(devicelimit, user.OnlineCount,
                                  LookupOnline(online, user.UID))
               IN  [users  |-> IF r.keep
                                 THEN <<[UID |-> user.UID, DeviceLimit |-> r.devicelimit]>>
                                 ELSE <<>>,
                    online |-> online]
          ELSE [users  |-> <<[UID |-> user.UID, DeviceLimit |-> devicelimit]>>,
                online |-> DropStale(online, user)]

\* the whole loop, from record i on: the list built and the map afterwards
RECURSIVE ReconcileFrom(_, _, _, _, _)
ReconcileFrom(override, users, i, online, userList) ==
    IF i > Len(users) THEN [users |-> userList, online |-> online]
    ELSE LET r == ReconcileUser(override, users[i], online)
         IN  ReconcileFrom(override, users, i + 1, r.online, userList \o r.users)

\* ParseReconciledUserList that works through the records that decoded
\* before it reports the decode failure
ParseReconciledPartial(override, users, malformed, online) ==
    LET r == ReconcileFrom(override, users, 1, online, <<>>)
    IN  [result |-> IF malformed THEN <<>> ELSE <<r.users>>, online |-> r.online]

\* ParseV2rayUserListResponse and ParseTrojanUserListResponse: `users' are
\* the records of the payload that decode and `malformed' says that a record
\* that does not decode follows them.  result is <<>> with an error, else
\* <<the user list>>.
ParseReconciledUserList(override, users, malformed, online) ==
    IF malformed THEN [result |-> <<>>, online |-> online]
    ELSE LET r == ReconcileFrom(override, users, 1, online, <<>>)
         IN  [result |-> <<r.users>>, online |-> r.online]

\* ParseSSUserListResponse
ParseSSUserList(override, users, malformed, online) ==
    IF malformed THEN [result |-> <<>>, online |-> online]
    ELSE [result |-> <<[i \in 1..Len(users) |->
                          [UID |-> users[i].UID, DeviceLimit |-> override]]>>,
          online |-> online]

\* the second switch of GetUserList
ParseUserList(nodeType, override, users, malformed, online) ==
    IF nodeType \in Reconciling
      THEN ParseReconciledUserList(override, users, malformed, online)
      ELSE ParseSSUserList(override, users, malformed, online)

\* ------------------------------------------------------------ online report
\* the loop of ReportNodeOnlineUsers that counts the sessions of every user
RECURSIVE CountFrom(_, _, _)
CountFrom(list, i, reportOnline) ==
    IF i > Len(list) THEN reportOnline
    ELSE CountFrom(list, i + 1,
                   IF MapHas(reportOnline, list[i])
                     THEN MapPut(reportOnline, list[i], reportOnline[list[i]] + 1)
                     ELSE MapPut(reportOnline, list[i], 1))

\* CountSessions that records every reported user once
CountSessionsOnce(list) == [u \in {list[i] : i \in 1..Len(list)} |-> 1]

CountSessions(list) == CountFrom(list, 1, EmptyMap)

\* StoreReport that merges the report into the entries it finds
StoreReportMerge(old, reportOnline) ==
    [u \in DOMAIN old \cup DOMAIN reportOnline |->
        IF u \in DOMAIN reportOnline THEN reportOnline[u] ELSE old[u]]

\* c.LastReportOnline = reportOnline
StoreReport(old, reportOnline) == reportOnline

\* CanLock that lets a goroutine in while another holds the mutex
CanLockAlways(held) == TRUE

\* c.access.Lock() goes on when no goroutine holds the mutex
CanLock(held) == ~held

\* UnlockOnReturn that runs on the successful return only
UnlockOnSuccess(err) == err # "nil"

\* AfterRequest that puts the earlier map back when the request failed
AfterRequestRollback(old, stored, err) == IF err # "nil" THEN old ELSE stored

\* c.LastReportOnline when ReportNodeOnlineUsers returns: the request and its
\* error path leave the map that was stored before the request alone
AfterRequest(old, stored, err) == stored

\* the mutex after ReportNodeOnlineUsers has returned (defer c.access.Unlock())
UnlockOnReturn(err) == FALSE

\* ------------------------------------------------------------ rule fetching
\* regexp.MustCompile panics on a pattern that does not compile
Compiles(pattern) == pattern # "bad("
Compile(pattern) == [regexp |-> pattern]

\* IsAppended that takes the rules of every type
IsAppendedAny(r) == TRUE

\* the panel rules GetNodeRule appends
IsAppended(r) == r.Type = "reg"

\* the loop of GetNodeRule from rule i on; panic is TRUE when MustCompile
\* panicked on an appended rule
RECURSIVE AppendRules(_, _, _)
AppendRules(rules, i, ruleList) ==
    IF i > Len(rules) THEN [panic |-> FALSE, ruleList |-> ruleList]
    ELSE IF IsAppended(rules[i])
      THEN IF Compiles(rules[i].Pattern)
             THEN AppendRules(rules, i + 1,
                      Append(ruleList, [ID |-> rules[i].ID,
                                        Pattern |-> Compile(rules[i].Pattern)]))
             ELSE [panic |-> TRUE, ruleList |-> ruleList]
    ELSE AppendRules(rules, i + 1, ruleList)

\* AggregateRules that appends the panel rules in every mode
AggregateRulesAnyMode(local, mode, rules) == AppendRules(rules, 1, local)

\* GetNodeRule after the envelope is accepted
AggregateRules(local, mode, rules) ==
    IF mode # "reject" THEN [panic |-> FALSE, ruleList |-> local]
    ELSE AppendRules(rules, 1, local)

\* the zero value of api.DetectRule, which an unused slot of an array holds
ZeroRule == [ID |-> 0, Pattern |-> [regexp |-> "nil"]]

\* LocalAfter that keeps what GetNodeRule has appended
LocalAccumulated(local, ruleList) == ruleList

\* c.LocalRuleList when GetNodeRule returns: the appends go to the copy of
\* the slice header in ruleList, the field is never assigned
LocalAfter(local, ruleList) == local

\* the slots past the length of c.LocalRuleList when GetNodeRule returns:
\* ruleList starts as a copy of the slice header, so append writes to the
\* shared array while it has room and moves to a new array after that
SpareAfter(local, slots, ruleList) ==
    [k \in 1..Len(slots) |->
       IF Len(local) + k <= Len(ruleList) THEN ruleList[Len(local) + k]
       ELSE slots[k]]

\* --------------------------------------------------------- violation report
\* SendReports that carries on after a rejected response and returns the
\* last error
RECURSIVE SendReportsAll(_, _, _, _, _)
SendReportsAll(nodeType, list, resps, i, sent) ==
    IF i > Len(list) THEN [err |-> "nil", sent |-> sent]
    ELSE LET req == [method |-> "POST",
                     path |-> <<"api", nodeType, "v1", "trigger">>,
                     body |-> [RuleID |-> list[i].RuleID, UID |-> list[i].UID,
                               Reason |-> "XrayR cannot save reason"]]
             e    == IF resps[i].err \/ resps[i].StatusCode > 400
                          \/ resps[i].Status # "success"
                       THEN "failed" ELSE "nil"
             rest == SendReportsAll(nodeType, list, resps, i + 1, Append(sent, req))
         IN  IF e # "nil" /\ rest.err = "nil"
               THEN [err |-> e, sent |-> rest.sent]
               ELSE rest

\* the loop of ReportIllegal from result i on: one request per result, until
\* the first response parseResponse rejects
RECURSIVE SendReports(_, _, _, _, _)
SendReports(nodeType, list, resps, i, sent) ==
    IF i > Len(list) THEN [err |-> "nil", sent |-> sent]
    ELSE LET req == Request("POST", nodeType, "trigger",
                            [RuleID |-> list[i].RuleID, UID |-> list[i].UID,
                             Reason |-> "XrayR cannot save reason"])
             e   == parseResponse(resps[i])
         IN  IF e # "nil" THEN [err |-> e, sent |-> Append(sent, req)]
             ELSE SendReports(nodeType, list, resps, i + 1, Append(sent, req))

\* fmt.Sprintf("%d%%", int(x)) of a load given in tenths
Percent(tenths) == <<tenths \div 10, "%">>

\* readLocalRuleList: one rule with the id -1 for every line of the file
readLocalRuleList(lines) ==
    [i \in 1..Len(lines) |-> [ID |-> -1, Pattern |-> Compile(lines[i])]]

\* a user-list payload of at most MaxUsers records: all of them decode, or
\* the records before the first one that does not
UserPayloads ==
    {[users |-> u, malformed |-> FALSE] : u \in SeqsUpTo(PayloadUsers, MaxUsers)} \cup
    {[users |-> u, malformed |-> TRUE] : u \in SeqsUpTo(PayloadUsers, MaxUsers - 1)}

\* ----------------------------------------------------------------- actions
Init ==
    /\ NodeType \in NodeTypes
    /\ DeviceLimit \in {0, MaxLimit}
    /\ LocalRuleList = readLocalRuleList(<<"local">>)
    /\ spare = <<>>
    /\ LastReportOnline = EmptyMap
    /\ access = FALSE
    /\ panicked = FALSE
    /\ reported = NoReport
    /\ last = Idle
    /\ pc = [poller |-> "idle", reporter |-> "idle"]
    /\ poll = NoPoll
    /\ report = <<>>
    /\ callers = [r \in Reporters |-> NotCalled]
    /\ again = NoAgain

Callable == ~panicked /\ last = Idle

config == <<NodeType, DeviceLimit, LocalRuleList, spare>>
conc   == <<pc, poll, report>>
seq    == <<panicked, reported, last, again>>

GetNodeInfo ==
    /\ Callable
    /\ IF Segment(NodeType) = <<>>
         THEN last' = [op |-> "GetNodeInfo", err |-> Unsupported, sent |-> <<>>,
                       nodeInfo |-> <<>>, online |-> LastReportOnline]
         ELSE \E e \in Outcomes :
                LET sent == <<Request("GET", NodeType, "node", <<>>)>>
                IN  IF e # "nil"
                      THEN last' = [op |-> "GetNodeInfo", err |-> e, sent |-> sent,
                                    nodeInfo |-> <<>>, online |-> LastReportOnline]
                      ELSE \E node \in PayloadNodes, malformed \in BOOLEAN :
                             LET info == ParseNodeResponse(NodeType, DeviceLimit,
                                                           node, malformed)
                             IN  last' = [op |-> "GetNodeInfo",
                                          err |-> IF info = <<>>
                                                    THEN "Parse node info failed"
                                                    ELSE "nil",
                                          sent |-> sent, node |-> node,
                                          malformed |-> malformed,
                                          nodeInfo |-> info,
                                          online |-> LastReportOnline]
    /\ UNCHANGED <<conc, callers, again, spare, NodeType, DeviceLimit, LocalRuleList, LastReportOnline, access, panicked, reported>>

GetUserList ==
    /\ Callable
    /\ IF Segment(NodeType) = <<>>
         THEN /\ last' = [op |-> "GetUserList", err |-> Unsupported, sent |-> <<>>,
                          UserList |-> <<>>, online |-> LastReportOnline]
              /\ UNCHANGED <<LastReportOnline, reported>>
         ELSE \E e \in Outcomes :
                LET sent == <<Request("GET", NodeType, "userList", <<>>)>>
                IN  IF e # "nil"
                      THEN /\ last' = [op |-> "GetUserList", err |-> e, sent |-> sent,
                                       UserList |-> <<>>, online |-> LastReportOnline]
                           /\ UNCHANGED <<LastReportOnline, reported>>
                      ELSE \E data \in UserPayloads :
                             LET users     == data.users
                                 malformed == data.malformed
                                 r == ParseUserList(NodeType, DeviceLimit, users,
                                                    malformed, LastReportOnline)
                             IN  /\ last' = [op |-> "GetUserList",
                                             err |-> IF r.result = <<>>
                                                       THEN "Parse user list failed"
                                                       ELSE "nil",
                                             sent |-> sent, users |-> users,
                                             malformed |-> malformed,
                                             UserList |-> r.result,
                                             online |-> LastReportOnline,
                                             reported |-> reported]
                                 /\ LastReportOnline' = r.online
                                 /\ reported' = IF NodeType \in Reconciling /\ ~malformed
                                                  THEN NoReport ELSE reported
    /\ UNCHANGED <<conc, callers, again, spare, NodeType, DeviceLimit, LocalRuleList, access, panicked>>

ReportNodeStatus ==
    /\ Callable
    /\ \E nodeStatus \in NodeStatuses :
         IF Segment(NodeType) = <<>>
           THEN last' = [op |-> "ReportNodeStatus", err |-> Unsupported,
                         sent |-> <<>>, online |-> LastReportOnline]
           ELSE \E res \in Responses :
                  last' = [op |-> "ReportNodeStatus", err |-> parseResponse(res),
                           res |-> res,
                           sent |-> <<Request("POST", NodeType, "nodeStatus",
                                        [Uptime |-> nodeStatus.Uptime,
                                         CPU  |-> Percent(nodeStatus.CPU),
                                         Mem  |-> Percent(nodeStatus.Mem),
                                         Disk |-> Percent(nodeStatus.Disk)])>>,
                           online |-> LastReportOnline]
    /\ UNCHANGED <<conc, callers, again, spare, NodeType, DeviceLimit, LocalRuleList, LastReportOnline, access, panicked, reported>>

ReportNodeOnlineUsers ==
    /\ Callable
    /\ access = FALSE                                  \* c.access.Lock()
    /\ \E list \in SeqsUpTo(UIDs, MaxSessions) :
         IF Segment(NodeType) = <<>>
           THEN /\ last' = [op |-> "ReportNodeOnlineUsers", err |-> Unsupported,
                            sent |-> <<>>, list |-> list,
                            online |-> LastReportOnline]
                /\ access' = UnlockOnReturn(Unsupported)
                /\ UNCHANGED <<LastReportOnline, reported>>
           ELSE \E res \in Responses :
                  /\ LastReportOnline' =
                       AfterRequest(LastReportOnline,
                                    StoreReport(LastReportOnline, CountSessions(list)),
                                    parseResponse(res))
                  /\ reported' = list
                  /\ last' = [op |-> "ReportNodeOnlineUsers",
                              err |-> parseResponse(res), res |-> res,
                              sent |-> <<Request("POST", NodeType, "nodeOnline",
                                                 list)>>,
                              list |-> list, online |-> LastReportOnline]
                  /\ access' = UnlockOnReturn(parseResponse(res))
    /\ UNCHANGED <<conc, callers, again, spare, NodeType, DeviceLimit, LocalRuleList, panicked>>

ReportUserTraffic ==
    /\ Callable
    /\ \E userTraffic \in SeqsUpTo(Traffics, 1) :
         IF Segment(NodeType) = <<>>
           THEN last' = [op |-> "ReportUserTraffic", err |-> Unsupported,
                         sent |-> <<>>, online |-> LastReportOnline]
           ELSE \E res \in Responses :
                  last' = [op |-> "ReportUserTraffic", err |-> parseResponse(res),
                           res |-> res,
                           sent |-> <<Request("POST", NodeType, "userTraffic",
                                              userTraffic)>>,
                           online |-> LastReportOnline]
    /\ UNCHANGED <<conc, callers, again, spare, NodeType, DeviceLimit, LocalRuleList, LastReportOnline, access, panicked, reported>>

GetNodeRule ==
    /\ Callable
    /\ IF Segment(NodeType) = <<>>
         THEN /\ last' = [op |-> "GetNodeRule", err |-> Unsupported, sent |-> <<>>,
                          ruleList |-> <<>>, online |-> LastReportOnline]
              /\ UNCHANGED <<panicked, LocalRuleList, spare>>
         ELSE \E e \in Outcomes :
                LET sent == <<Request("GET", NodeType, "nodeRule", <<>>)>>
                IN  IF e # "nil"
                      THEN /\ last' = [op |-> "GetNodeRule", err |-> e, sent |-> sent,
                                       ruleList |-> <<>>, online |-> LastReportOnline]
                           /\ UNCHANGED <<panicked, LocalRuleList, spare>>
                      ELSE \E mode \in Modes, rules \in SeqsUpTo(PanelRules, MaxRules),
                              malformed \in BOOLEAN :
                             LET r == AggregateRules(LocalRuleList, mode, rules)
                             IN  IF malformed
                                   THEN /\ last' = [op |-> "GetNodeRule",
                                                    err |-> "Unmarshal failed",
                                                    sent |-> sent, ruleList |-> <<>>,
                                                    online |-> LastReportOnline]
                                        /\ UNCHANGED <<panicked, LocalRuleList, spare>>
                                   ELSE /\ last' = [op |-> "GetNodeRule",
                                                    err |-> IF r.panic THEN "panic"
                                                                       ELSE "nil",
                                                    sent |-> sent, mode |-> mode,
                                                    rules |-> rules,
                                                    ruleList |-> IF r.panic THEN <<>>
                                                                 ELSE <<r.ruleList>>,
                                                    online |-> LastReportOnline]
                                        /\ panicked' = r.panic
                                        /\ LocalRuleList' =
                                             LocalAfter(LocalRuleList, r.ruleList)
                                        /\ spare' = SpareAfter(LocalRuleList, spare,
                                                               r.ruleList)
    /\ UNCHANGED <<conc, callers, again, NodeType, DeviceLimit, LastReportOnline, access, reported>>

ReportIllegal ==
    /\ Callable
    /\ \E list \in SeqsUpTo(DetectResults, MaxViolations) :
         IF Segment(NodeType) = <<>>
           THEN last' = [op |-> "ReportIllegal", err |-> Unsupported, sent |-> <<>>,
                         list |-> list, resps |-> <<>>,
                         online |-> LastReportOnline]
           ELSE \E resps \in [1..Len(list) -> Responses] :
                  LET r == SendReports(NodeType, list, resps, 1, <<>>)
                  IN  last' = [op |-> "ReportIllegal", err |-> r.err,
                               sent |-> r.sent, list |-> list,
                               resps |-> resps,
                               online |-> LastReportOnline]
    /\ UNCHANGED <<conc, callers, again, spare, NodeType, DeviceLimit, LocalRuleList, LastReportOnline, access, panicked, reported>>

\* the caller takes the result of the call
Return ==
    /\ ~panicked
    /\ last # Idle
    /\ last' = Idle
    /\ UNCHANGED <<conc, callers, again, spare, NodeType, DeviceLimit, LocalRuleList, LastReportOnline, access, panicked, reported>>

Next ==
    \/ GetNodeInfo
    \/ GetUserList
    \/ ReportNodeStatus
    \/ ReportNodeOnlineUsers
    \/ ReportUserTraffic
    \/ GetNodeRule
    \/ ReportIllegal
    \/ Return

Spec == Init /\ [][Next]_vars

\* ------------------------------------------------- concurrent goroutines
\* -------------------------------------------------------------- SpecReports
\* Two goroutines call ReportNodeOnlineUsers again and again, one statement
\* that touches the mutex or the map at a time.  callers[r].pc is "new"
\* before r's first call, "waiting" in c.access.Lock(), "locked" after it,
\* "stored" after c.LastReportOnline = reportOnline and "returned" after the
\* return; callers[r].met tells that r's latest call ran while the other
\* goroutine was inside a call.
Other(r) == CHOOSE o \in Reporters : o # r

Running(r) == callers[r].pc \in {"waiting", "locked", "stored"}

\* r calls ReportNodeOnlineUsers(list)
CallReport(r) ==
    /\ ~Running(r)
    /\ \E list \in SeqsUpTo(UIDs, MaxSessions) :
         callers' = [callers EXCEPT
             ![r] = [pc |-> "waiting", list |-> list, met |-> Running(Other(r))],
             ![Other(r)].met = @ \/ Running(Other(r))]
    /\ UNCHANGED <<config, conc, seq, LastReportOnline, access>>

\* c.access.Lock()
LockReport(r) ==
    /\ callers[r].pc = "waiting"
    /\ CanLock(access)
    /\ access' = TRUE
    /\ callers' = [callers EXCEPT ![r].pc = "locked"]
    /\ UNCHANGED <<config, conc, seq, LastReportOnline>>

\* the switch on the node type, the counting loop and
\* c.LastReportOnline = reportOnline
StoreCounts(r) ==
    /\ callers[r].pc = "locked"
    /\ IF Segment(NodeType) = <<>>
         THEN /\ access' = UnlockOnReturn(Unsupported)
              /\ callers' = [callers EXCEPT ![r].pc = "returned"]
              /\ UNCHANGED LastReportOnline
         ELSE /\ LastReportOnline' = StoreReport(LastReportOnline,
                                                 CountSessions(callers[r].list))
              /\ callers' = [callers EXCEPT ![r].pc = "stored"]
              /\ UNCHANGED access
    /\ UNCHANGED <<config, conc, seq>>

\* the request, parseResponse and the return, which unlocks
SendReport(r) ==
    /\ callers[r].pc = "stored"
    /\ \E res \in Responses :
         /\ access' = UnlockOnReturn(parseResponse(res))
         /\ LastReportOnline' = AfterRequest(LastReportOnline, LastReportOnline,
                                             parseResponse(res))
    /\ callers' = [callers EXCEPT ![r].pc = "returned"]
    /\ UNCHANGED <<config, conc, seq>>

NextReports ==
    \E r \in Reporters :
      \/ CallReport(r)
      \/ LockReport(r)
      \/ StoreCounts(r)
      \/ SendReport(r)

SpecReports == Init /\ [][NextReports]_vars

\* Every statement of a call that can run does run in the end: the request
\* returns, and a goroutine that waits for the mutex gets it after finitely
\* many releases.
SpecReportsFair ==
    /\ SpecReports
    /\ \A r \in Reporters :
         /\ SF_vars(LockReport(r))
         /\ WF_vars(StoreCounts(r))
         /\ WF_vars(SendReport(r))

\* --------------------------------------------------------------- SpecRepoll
\* One caller reports and polls, and after a poll that returned a list it
\* may poll once more before anything else: the panel answers the second
\* request with the payload of the first.
GetUserListAgain ==
    /\ ~panicked
    /\ last.op = "GetUserList"
    /\ last.err = "nil"
    /\ again = NoAgain
    /\ LET r == ParseUserList(NodeType, DeviceLimit, last.users, FALSE,
                              LastReportOnline)
       IN  /\ again' = [op |-> "GetUserList", err |-> "nil",
                        UserList |-> r.result, online |-> LastReportOnline]
           /\ LastReportOnline' = r.online
    /\ UNCHANGED <<config, conc, callers, access, panicked, reported, last>>

\* the caller takes the results of the one or two calls
TakeResults ==
    /\ ~panicked
    /\ last # Idle
    /\ last' = Idle
    /\ again' = NoAgain
    /\ UNCHANGED <<config, conc, callers, LastReportOnline, access, panicked, reported>>

NextRepoll ==
    \/ ReportNodeOnlineUsers
    \/ GetUserList
    \/ GetUserListAgain
    \/ TakeResults

SpecRepoll == Init /\ [][NextRepoll]_vars

\* ---------------------------------------------------------------- SpecRules
\* The client is constructed over a rule file of up to MaxLines lines and
\* GetNodeRule is called again and again.  How much room append leaves past
\* the length of the slice it returns is up to the runtime, so the array of
\* LocalRuleList starts with any number of unused slots up to MaxSpare; a
\* list that was never appended to has none.
RuleFiles == SeqsUpTo({"local"}, MaxLines)

InitRules ==
    /\ NodeType \in NodeTypes
    /\ DeviceLimit \in {0, MaxLimit}
    /\ \E lines \in RuleFiles, room \in 0..MaxSpare :
         /\ lines = <<>> => room = 0
         /\ LocalRuleList = readLocalRuleList(lines)
         /\ spare = [k \in 1..room |-> ZeroRule]
    /\ LastReportOnline = EmptyMap
    /\ access = FALSE
    /\ panicked = FALSE
    /\ reported = NoReport
    /\ last = Idle
    /\ pc = [poller |-> "idle", reporter |-> "idle"]
    /\ poll = NoPoll
    /\ report = <<>>
    /\ callers = [r \in Reporters |-> NotCalled]
    /\ again = NoAgain

NextRules ==
    \/ GetNodeRule
    \/ Return

SpecRules == InitRules /\ [][NextRules]_vars


\* GetUserList up to the loop of the parser: the request, parseResponse and
\* the decoding of the payload.  Only the V2ray and Trojan parsers go on to
\* read c.LastReportOnline.
PollCall ==
    /\ pc.poller = "idle"
    /\ \E res \in Responses :
         IF Segment(NodeType) # <<>> /\ parseResponse(res) = "nil"
                                    /\ NodeType \in Reconciling
           THEN \E data \in UserPayloads :
                  IF data.malformed
                    THEN UNCHANGED <<pc, poll>>
                    ELSE /\ pc' = [pc EXCEPT !.poller = "loop"]
                         /\ poll' = [users |-> data.users, i |-> 1, userList |-> <<>>]
           ELSE UNCHANGED <<pc, poll>>
    /\ UNCHANGED <<config, LastReportOnline, access, report, callers, seq>>

\* one iteration of the loop up to the statement after the map lookup: the
\* reconciliation branch as a whole, or the lookup of the else-if branch
PollLookup ==
    /\ pc.poller = "loop"
    /\ poll.i <= Len(poll.users)
    /\ LET user        == poll.users[poll.i]
           devicelimit == BaseDeviceLimit(DeviceLimit, user.DeviceLimit)
       IN  IF ~(devicelimit > 0 /\ user.OnlineCount > 0)
                /\ user.OnlineCount = 0 /\ MapHas(LastReportOnline, user.UID)
             THEN /\ pc' = [pc EXCEPT !.poller = "delete"]
                  /\ UNCHANGED poll
             ELSE /\ poll' = [poll EXCEPT
                        !.i = @ + 1,
                        !.userList = @ \o ReconcileUser(DeviceLimit, user,
                                                        LastReportOnline).users]
                  /\ UNCHANGED pc
    /\ UNCHANGED <<config, LastReportOnline, access, report, callers, seq>>

\* delete(c.LastReportOnline, user.UID) and the append that follows it
PollDelete ==
    /\ pc.poller = "delete"
    /\ LET user == poll.users[poll.i]
       IN  /\ LastReportOnline' = MapDelete(LastReportOnline, user.UID)
           /\ poll' = [poll EXCEPT
                 !.i = @ + 1,
                 !.userList = Append(@, [UID |-> user.UID,
                     DeviceLimit |-> BaseDeviceLimit(DeviceLimit, user.DeviceLimit)])]
    /\ pc' = [pc EXCEPT !.poller = "loop"]
    /\ UNCHANGED <<config, access, report, callers, seq>>

\* return &userList, nil
PollReturn ==
    /\ pc.poller = "loop"
    /\ poll.i > Len(poll.users)
    /\ pc' = [pc EXCEPT !.poller = "idle"]
    /\ poll' = NoPoll
    /\ UNCHANGED <<config, LastReportOnline, access, report, callers, seq>>

\* c.access.Lock()
ReportLock ==
    /\ pc.reporter = "idle"
    /\ access = FALSE
    /\ access' = TRUE
    /\ \E list \in SeqsUpTo(UIDs, MaxSessions) : report' = list
    /\ pc' = [pc EXCEPT !.reporter = "locked"]
    /\ UNCHANGED <<config, LastReportOnline, poll, callers, seq>>

\* the switch on the node type, the counting loop and
\* c.LastReportOnline = reportOnline
ReportStore ==
    /\ pc.reporter = "locked"
    /\ IF Segment(NodeType) = <<>>
         THEN /\ access' = UnlockOnReturn(Unsupported)
              /\ pc' = [pc EXCEPT !.reporter = "idle"]
              /\ report' = <<>>
              /\ UNCHANGED LastReportOnline
         ELSE /\ LastReportOnline' = StoreReport(LastReportOnline,
                                                 CountSessions(report))
              /\ pc' = [pc EXCEPT !.reporter = "stored"]
              /\ UNCHANGED <<access, report>>
    /\ UNCHANGED <<config, poll, callers, seq>>

\* the request, parseResponse and the return, which unlocks
ReportSend ==
    /\ pc.reporter = "stored"
    /\ \E res \in Responses : access' = UnlockOnReturn(parseResponse(res))
    /\ pc' = [pc EXCEPT !.reporter = "idle"]
    /\ report' = <<>>
    /\ UNCHANGED <<config, LastReportOnline, poll, callers, seq>>

NextConc ==
    \/ PollCall
    \/ PollLookup
    \/ PollDelete
    \/ PollReturn
    \/ ReportLock
    \/ ReportStore
    \/ ReportSend

SpecConc == Init /\ [][NextConc]_vars

\* ================================================================== claims
Supported == {"V2ray", "Trojan", "Shadowsocks"}

\* a user-list call that reached the parser of a reconciling node type
Polled == /\ last.op = "GetUserList"
          /\ NodeType \in Reconciling
          /\ "users" \in DOMAIN last

\* the base limit the claims call L
BaseL(user) == IF DeviceLimit > 0 THEN DeviceLimit ELSE user.DeviceLimit

\* the retained count the claims call P, for record i of the payload: the
\* entry the map had when the call began, unless an earlier record of the
\* same user id with online count 0 has removed it
RetainedAt(users, i, pre) ==
    IF /\ users[i].UID \in DOMAIN pre
       /\ \A j \in 1..(i - 1) :
            ~(users[j].UID = users[i].UID /\ users[j].OnlineCount = 0)
      THEN pre[users[i].UID]
      ELSE 0

\* the effective limit as the reconciliation algorithm states it: <<>> when
\* the user is omitted
Effective(L, O, P) ==
    IF L > 0 /\ O > 0
      THEN IF L - O + P > 0 THEN <<L - O + P>>
           ELSE IF P > 0 THEN <<P>>
           ELSE <<>>
      ELSE <<L>>

RECURSIVE ExpectedUsers(_, _, _)
ExpectedUsers(users, i, pre) ==
    IF i > Len(users) THEN <<>>
    ELSE LET e == Effective(BaseL(users[i]), users[i].OnlineCount,
                            RetainedAt(users, i, pre))
         IN  (IF e = <<>> THEN <<>>
              ELSE <<[UID |-> users[i].UID, DeviceLimit |-> e[1]]>>)
             \o ExpectedUsers(users, i + 1, pre)

\* C1: for V2ray and Trojan, GetUserList returns, in payload order, exactly
\* the users the algorithm keeps, each with the effective limit computed from
\* L, O and P: L - O + P when L > 0, O > 0 and that is > 0; P when it is <= 0
\* and P > 0; omitted when it is <= 0 and P = 0; L when L = 0 or O = 0.
C1_EffectiveLimit ==
    (Polled /\ last.err = "nil")
        => last.UserList = <<ExpectedUsers(last.users, 1, last.online)>>

\* a poll that kept one user at P (candidate <= 0) and omitted another
C1_Witness ==
    /\ Polled /\ last.err = "nil"
    /\ \E i, j \in 1..Len(last.users) :
         LET u == last.users[i]
             v == last.users[j]
         IN  /\ BaseL(u) > 0 /\ u.OnlineCount > 0
             /\ RetainedAt(last.users, i, last.online) > 0
             /\ BaseL(u) - u.OnlineCount + RetainedAt(last.users, i, last.online) <= 0
             /\ BaseL(v) > 0 /\ v.OnlineCount > 0
             /\ RetainedAt(last.users, j, last.online) = 0
             /\ BaseL(v) - v.OnlineCount <= 0
             /\ Len(last.UserList[1]) = Len(last.users) - 1

Occurrences(list, uid) == Cardinality({i \in 1..Len(list) : list[i] = uid})

OnlyRecordOf(users, i) == \A j \in 1..Len(users) : users[j].UID = users[i].UID => j = i

\* C2: when the latest operation that touched the retained state is a report
\* in which user u appears k >= 1 times, a V2ray or Trojan poll whose payload
\* has a record for u with L > 0 and O > 0 returns u; when that record is the
\* payload's one record for u and O = k, u is returned with effective limit L.
C2_ReportThenPoll ==
    (Polled /\ last.err = "nil" /\ last.reported # NoReport)
        => \A i \in 1..Len(last.users) :
             LET u == last.users[i]
                 k == Occurrences(last.reported, u.UID)
             IN  (k >= 1 /\ BaseL(u) > 0 /\ u.OnlineCount > 0)
                   => /\ \E n \in 1..Len(last.UserList[1]) :
                           last.UserList[1][n].UID = u.UID
                      /\ (u.OnlineCount = k /\ OnlyRecordOf(last.users, i))
                           => \E n \in 1..Len(last.UserList[1]) :
                                last.UserList[1][n] =
                                  [UID |-> u.UID, DeviceLimit |-> BaseL(u)]

\* user 7 reported twice, then polled with L = 2 and O = 2
C2_Witness ==
    /\ Polled /\ last.err = "nil" /\ last.reported = <<7, 7>>
    /\ \E i \in 1..Len(last.users) :
         /\ last.users[i].UID = 7 /\ BaseL(last.users[i]) = 2
         /\ last.users[i].OnlineCount = 2
         /\ OnlyRecordOf(last.users, i)
    /\ [UID |-> 7, DeviceLimit |-> 2] \in {last.UserList[1][n] : n \in 1..Len(last.UserList[1])}

\* the user ids that have a record with online count 0 in the payload
ZeroOnline(users) == {users[i].UID : i \in {j \in 1..Len(users) : users[j].OnlineCount = 0}}

\* C3 as stated: for every user with L > 0 and O = 0, GetUserList returns the
\* user with effective limit L and the retained state is the same before and
\* after the call.
C3_NoMutationOnPoll ==
    (Polled /\ last.err = "nil")
        => \A i \in 1..Len(last.users) :
             (BaseL(last.users[i]) > 0 /\ last.users[i].OnlineCount = 0)
               => /\ \E n \in 1..Len(last.UserList[1]) :
                       last.UserList[1][n] = [UID |-> last.users[i].UID,
                                              DeviceLimit |-> BaseL(last.users[i])]
                  /\ LastReportOnline = last.online

\* C3 amended: for every user with L > 0 and O = 0, GetUserList returns the
\* user with effective limit L, and the user-list path changes the retained
\* state only by removing the entries of the users whose payload online count
\* is 0: that user's entry is absent afterwards and the entries of all other
\* users are as before.
C3_OnlyStaleRemoved ==
    (Polled /\ last.err = "nil")
        => /\ \A i \in 1..Len(last.users) :
                (BaseL(last.users[i]) > 0 /\ last.users[i].OnlineCount = 0)
                  => /\ \E n \in 1..Len(last.UserList[1]) :
                          last.UserList[1][n] = [UID |-> last.users[i].UID,
                                                 DeviceLimit |-> BaseL(last.users[i])]
                     /\ last.users[i].UID \notin DOMAIN LastReportOnline
           /\ DOMAIN LastReportOnline = DOMAIN last.online \ ZeroOnline(last.users)
           /\ \A u \in DOMAIN LastReportOnline : LastReportOnline[u] = last.online[u]

\* a limited user with no online session whose entry the poll removed while
\* another user's entry stayed
C3_Witness ==
    /\ Polled /\ last.err = "nil"
    /\ \E i \in 1..Len(last.users) :
         /\ BaseL(last.users[i]) > 0 /\ last.users[i].OnlineCount = 0
         /\ last.users[i].UID \in DOMAIN last.online
    /\ LastReportOnline # last.online
    /\ LastReportOnline # EmptyMap

\* C4: when ReportNodeOnlineUsers(list) returns on a supported node type, the
\* retained state is exactly the mapping from every user id of the list to
\* the number of its occurrences: users that are not in the list have no
\* entry, whatever the state was before.
C4_ReportReplaces ==
    (last.op = "ReportNodeOnlineUsers" /\ NodeType \in Supported)
        => /\ DOMAIN LastReportOnline = {last.list[i] : i \in 1..Len(last.list)}
           /\ \A u \in DOMAIN LastReportOnline :
                LastReportOnline[u] = Occurrences(last.list, u)

\* a report that leaves out a user that had an entry before it
C4_Witness ==
    /\ last.op = "ReportNodeOnlineUsers" /\ NodeType \in Supported
    /\ \E u \in DOMAIN last.online : Occurrences(last.list, u) = 0
    /\ \E u \in DOMAIN last.online :
         Occurrences(last.list, u) > 0 /\ Occurrences(last.list, u) # last.online[u]

\* C6 as stated: in all three variants the device limit of a node info is the
\* override when it is > 0 and else the payload's, and so is the base limit of
\* every user of a user list (for V2ray and Trojan the base limit is what a
\* user with online count 0 carries; a Shadowsocks user carries it always).
C6_BaseLimitAllVariants ==
    /\ (last.op = "GetNodeInfo" /\ last.err = "nil")
         => last.nodeInfo[1].DeviceLimit =
              (IF DeviceLimit > 0 THEN DeviceLimit ELSE last.node.ClientLimit)
    /\ (last.op = "GetUserList" /\ last.err = "nil")
         => \A i \in 1..Len(last.users) :
              (NodeType = "Shadowsocks" \/ last.users[i].OnlineCount = 0)
                => \E n \in 1..Len(last.UserList[1]) :
                     last.UserList[1][n] =
                       [UID |-> last.users[i].UID,
                        DeviceLimit |-> IF DeviceLimit > 0 THEN DeviceLimit
                                        ELSE last.users[i].DeviceLimit]

\* C7: when the user-list payload does not decode, GetUserList returns an
\* error and no user list, and the retained state is as it was before the
\* call.
C7_DecodeFailsWhole ==
    (last.op = "GetUserList" /\ "malformed" \in DOMAIN last /\ last.malformed)
        => /\ last.err # "nil"
           /\ last.UserList = <<>>
           /\ LastReportOnline = last.online

\* a payload that fails to decode after a record with online count 0 of a
\* user that has an entry
C7_Witness ==
    /\ last.op = "GetUserList" /\ "malformed" \in DOMAIN last /\ last.malformed
    /\ NodeType \in Reconciling
    /\ \E i \in 1..Len(last.users) :
         /\ last.users[i].OnlineCount = 0
         /\ last.users[i].UID \in DOMAIN last.online

\* C8: with a node type that is none of V2ray, Trojan and Shadowsocks, every
\* method returns the unsupported-node-type error, has sent no request, has
\* left the retained state as it was and, for ReportNodeOnlineUsers, has
\* released the mutex.
C8_UnsupportedNodeType ==
    (NodeType \notin Supported /\ last # Idle)
        => /\ last.err = Unsupported
           /\ last.sent = <<>>
           /\ LastReportOnline = last.online
           /\ access = FALSE
           /\ ~panicked

\* an online report of two sessions on a node of an unknown type
C8_Witness ==
    /\ NodeType \notin Supported
    /\ last.op = "ReportNodeOnlineUsers"
    /\ Len(last.list) = 2

\* the requests for which the transport's answer is rejected
Rejected(resps) == {i \in 1..Len(resps) : parseResponse(resps[i]) # "nil"}

Min(S) == CHOOSE x \in S : \A y \in S : x <= y

\* C9: ReportIllegal sends one request per detect result, in list order; when
\* the answer to the i-th request is the first that is rejected it returns
\* that error with exactly i requests sent; when none is rejected it returns
\* no error with one request sent per result.
C9_ReportsUntilFirstFailure ==
    (last.op = "ReportIllegal" /\ NodeType \in Supported)
        => LET bad == Rejected(last.resps)
               n   == IF bad = {} THEN Len(last.list) ELSE Min(bad)
           IN  /\ Len(last.sent) = n
               /\ \A j \in 1..n :
                    /\ last.sent[j].body.RuleID = last.list[j].RuleID
                    /\ last.sent[j].body.UID = last.list[j].UID
                    /\ last.sent[j].path[4] = "trigger"
               /\ last.err = IF bad = {} THEN "nil"
                             ELSE parseResponse(last.resps[n])

\* two detect results of which the first is rejected
C9_Witness ==
    /\ last.op = "ReportIllegal" /\ NodeType \in Supported
    /\ Len(last.list) = 2
    /\ last.list[1] # last.list[2]
    /\ Rejected(last.resps) = {1}
    /\ Len(last.sent) = 1
    /\ last.err # "nil"

\* the rules GetNodeRule is to return in reject mode when it appends the panel
\* rules of the given type
RulesOfType(local, rules, type) ==
    LET picked == SelectSeq(rules, LAMBDA r : r.Type = type)
    IN  local \o [i \in 1..Len(picked) |->
                    [ID |-> picked[i].ID, Pattern |-> [regexp |-> picked[i].Pattern]]]

RuleFetched == /\ last.op = "GetNodeRule"
               /\ last.err = "nil"
               /\ "mode" \in DOMAIN last

\* C10 as stated: in reject mode GetNodeRule returns the local rules followed
\* by one rule for every panel rule whose type is "regex", with the panel
\* rule's id and in panel order.
C10_RejectAppendsRegex ==
    (RuleFetched /\ last.mode = "reject")
        => last.ruleList = <<RulesOfType(LocalRuleList, last.rules, "regex")>>

\* C10 amended: in reject mode GetNodeRule returns the local rules followed
\* by one rule for every panel rule whose type is "reg", with the panel rule's
\* id and in panel order; the panel rules of every other type, "regex"
\* included, are skipped.
C10_RejectAppendsReg ==
    (RuleFetched /\ last.mode = "reject")
        => last.ruleList = <<RulesOfType(LocalRuleList, last.rules, "reg")>>

\* a reject-mode payload with a "reg" rule and a rule of another type
C10_Witness ==
    /\ RuleFetched /\ last.mode = "reject"
    /\ Len(last.rules) = 2
    /\ last.rules[1].Type = "regex"
    /\ last.rules[2].Type = "reg"
    /\ Len(last.ruleList[1]) = Len(LocalRuleList) + 1

\* C5 as stated: with one polling and one reporting goroutine, GetUserList is
\* never between its lookup of a retained entry and the delete of that entry
\* while ReportNodeOnlineUsers holds the mutex.
C5_ReadUnderMutex ==
    ~(access /\ pc.reporter \in {"locked", "stored"} /\ pc.poller = "delete")

\* C11: when the panel's rule mode is not "reject", GetNodeRule returns
\* exactly the local rule list, the same rules in the same order, whatever
\* rules the panel supplied.
C11_OtherModeLocalOnly ==
    (RuleFetched /\ last.mode # "reject")
        => last.ruleList = <<LocalRuleList>>

\* an "allow" payload that carries a "reg" rule with a pattern that compiles
C11_Witness ==
    /\ RuleFetched /\ last.mode = "allow"
    /\ \E i \in 1..Len(last.rules) :
         last.rules[i].Type = "reg" /\ last.rules[i].Pattern = "good"
    /\ Len(last.ruleList[1]) = 1

\* C12 as stated: when the rule mode is "reject" and the pattern of a panel
\* rule that is to be appended does not compile, GetNodeRule returns an error
\* and no rule list, and the process is not aborted by a panic.
C12_CompileErrorReturned ==
    (/\ last.op = "GetNodeRule" /\ "mode" \in DOMAIN last
     /\ last.mode = "reject"
     /\ \E i \in 1..Len(last.rules) :
          last.rules[i].Type = "reg" /\ last.rules[i].Pattern = "bad(")
        => /\ ~panicked
           /\ last.err \notin {"nil", "panic"}
           /\ last.ruleList = <<>>

\* C13 as stated: a response with an HTTP status code >= 400, exactly 400
\* included, is reported as a request failure; a response below 400 whose
\* envelope status is not "success" is reported as the envelope failure; in
\* both cases the method returns an error.
C13_ResponseClassification ==
    ("res" \in DOMAIN last /\ ~last.res.err)
        => /\ last.res.StatusCode >= 400
                => last.err \in {"request failed", "request failed with body"}
           /\ (last.res.StatusCode < 400 /\ last.res.Status # "success")
                => last.err = "Ret invalid"

\* the entries of the returned list for the user of payload record i
ReturnedFor(i) ==
    {n \in 1..Len(last.UserList[1]) : last.UserList[1][n].UID = last.users[i].UID}

\* a record of a limited user that is online, holds retained sessions and is
\* the payload's one record for its user id
HoldsSessions(i) ==
    /\ BaseL(last.users[i]) > 0
    /\ last.users[i].OnlineCount > 0
    /\ OnlyRecordOf(last.users, i)
    /\ last.users[i].UID \in DOMAIN last.online

\* C14 as stated: every V2ray or Trojan user with L > 0, O > 0 and P > 0 is
\* returned with an effective limit of at least P, also when L < O.
C14_AtLeastRetained ==
    (Polled /\ last.err = "nil")
        => \A i \in 1..Len(last.users) :
             HoldsSessions(i)
               => /\ ReturnedFor(i) # {}
                  /\ \A n \in ReturnedFor(i) :
                       last.UserList[1][n].DeviceLimit
                         >= last.online[last.users[i].UID]

\* C14 amended: every V2ray or Trojan user with L > 0, O > 0 and P > 0 is
\* returned with an effective limit of at least 1; the limit is at least P
\* when L >= O, it is P when L - O + P <= 0, and when L < O < L + P it is
\* L - O + P, which is below P.
C14_RetainedOrCandidate ==
    (Polled /\ last.err = "nil")
        => \A i \in 1..Len(last.users) :
             HoldsSessions(i)
               => LET L == BaseL(last.users[i])
                      O == last.users[i].OnlineCount
                      P == last.online[last.users[i].UID]
                  IN  /\ ReturnedFor(i) # {}
                      /\ \A n \in ReturnedFor(i) :
                           LET e == last.UserList[1][n].DeviceLimit
                           IN  /\ e >= 1
                               /\ L >= O => e >= P
                               /\ L - O + P <= 0 => e = P
                               /\ (L < O /\ L - O + P > 0) => (e = L - O + P /\ e < P)

\* a user with L = 1, O = 2 and P = 2, returned with the limit 1
C14_Witness ==
    /\ Polled /\ last.err = "nil"
    /\ \E i \in 1..Len(last.users) :
         /\ HoldsSessions(i)
         /\ BaseL(last.users[i]) = 1
         /\ last.users[i].OnlineCount = 2
         /\ last.online[last.users[i].UID] = 2
         /\ \E n \in ReturnedFor(i) : last.UserList[1][n].DeviceLimit = 1

\* the payload's records of the user of returned entry n all carry a base
\* limit above 0
LimitedUser(n) ==
    \A i \in 1..Len(last.users) :
      last.users[i].UID = last.UserList[1][n].UID => BaseL(last.users[i]) > 0

\* C17: every user that GetUserList returns for V2ray or Trojan and whose
\* base limit L is > 0 has an effective limit of at least 1; no returned
\* limit is negative.
C17_LimitedStaysLimited ==
    (Polled /\ last.err = "nil")
        => \A n \in 1..Len(last.UserList[1]) :
             /\ last.UserList[1][n].DeviceLimit >= 0
             /\ LimitedUser(n) => last.UserList[1][n].DeviceLimit >= 1

\* a user with L = 1, O = 2 and P = 1, whose candidate limit is 0, is
\* returned with the limit 1
C17_Witness ==
    /\ Polled /\ last.err = "nil"
    /\ \E i \in 1..Len(last.users) :
         /\ HoldsSessions(i)
         /\ BaseL(last.users[i]) = 1
         /\ last.users[i].OnlineCount = 2
         /\ last.online[last.users[i].UID] = 1
         /\ \E n \in ReturnedFor(i) :
              LimitedUser(n) /\ last.UserList[1][n].DeviceLimit = 1

\* the count mapping of a reported list
CountsOf(list) ==
    [u \in {list[i] : i \in 1..Len(list)} |-> Occurrences(list, u)]

\* the three ways the request of a report ends in a failure
FailedReport ==
    /\ last.op = "ReportNodeOnlineUsers"
    /\ NodeType \in Supported
    /\ last.err \in {"request failed", "request failed with body", "Ret invalid"}

\* C19: on a supported node type the map a report leaves is the count mapping
\* of its list whether the request succeeds, fails in transport or comes back
\* with a non-success envelope; a failed report does not put the earlier
\* mapping back.
C19_StoredDespiteFailure ==
    (last.op = "ReportNodeOnlineUsers" /\ NodeType \in Supported)
        => /\ Len(last.sent) = 1
           /\ last.err \in {"nil", "request failed", "request failed with body",
                            "Ret invalid"}
           /\ LastReportOnline = CountsOf(last.list)
           /\ (FailedReport /\ CountsOf(last.list) # last.online)
                => LastReportOnline # last.online

\* a report that failed with a non-success envelope after replacing a
\* non-empty mapping by a different non-empty one
C19_Witness ==
    /\ FailedReport
    /\ last.err = "Ret invalid"
    /\ DOMAIN last.online # {}
    /\ last.list # <<>>
    /\ CountsOf(last.list) # last.online
    /\ LastReportOnline = CountsOf(last.list)

\* what a call of GetNodeRule returns, from the local list and its payload
RulesFor(local, mode, rules) ==
    IF mode = "reject" THEN RulesOfType(local, rules, "reg") ELSE local

\* C20: GetNodeRule never changes c.LocalRuleList, which stays the list read
\* from the rule file at construction, and the list a call returns is
\* determined by the local list and the payload of that call, whatever the
\* calls before it appended.
C20_NoAccumulation ==
    /\ [](/\ \A k \in 1..Len(LocalRuleList) :
               LocalRuleList[k] = [ID |-> -1, Pattern |-> Compile("local")]
          /\ RuleFetched
               => last.ruleList = <<RulesFor(LocalRuleList, last.mode, last.rules)>>)
    /\ [][LocalRuleList' = LocalRuleList]_vars

\* a call returns the local list alone after an earlier call has appended a
\* panel rule into the array that the local list shares
C20_Witness ==
    /\ RuleFetched
    /\ LocalRuleList # <<>>
    /\ spare # <<>> /\ spare[1] # ZeroRule
    /\ last.mode = "allow"
    /\ \E i \in 1..Len(last.rules) : IsAppended(last.rules[i])
    /\ last.ruleList = <<LocalRuleList>>

\* the goroutines between c.access.Lock() and the unlock of the return
InSection == {r \in Reporters : callers[r].pc \in {"locked", "stored"}}

\* the latest calls of the two goroutines ran at the same time and both
\* have returned
OverlappedAndReturned ==
    \A r \in Reporters : callers[r].pc = "returned" /\ callers[r].met

\* the map is the whole count mapping of the latest list of A or of B
MapOfOneReport ==
    \E r \in Reporters : LastReportOnline = CountsOf(callers[r].list)

\* C15 as stated: at most one call of ReportNodeOnlineUsers is between the
\* lock and the unlock, and after two overlapping reports have both returned
\* the map is the complete count mapping of one of them.
C15_SerializedReports ==
    /\ Cardinality(InSection) <= 1
    /\ OverlappedAndReturned => MapOfOneReport

\* C15 amended: at most one call of ReportNodeOnlineUsers is between the lock
\* and the unlock, and on a supported node type the map after two
\* overlapping reports have both returned is the complete count mapping of
\* one of them; on any other node type the reports leave the map as it was.
C15_SerializedSupported ==
    /\ Cardinality(InSection) <= 1
    /\ (OverlappedAndReturned /\ NodeType \in Supported) => MapOfOneReport
    /\ NodeType \notin Supported => LastReportOnline = EmptyMap

\* two overlapping reports that count the same user differently have both
\* returned
C15_Witness ==
    /\ OverlappedAndReturned
    /\ NodeType \in Supported
    /\ LastReportOnline = CountsOf(callers["A"].list)
    /\ \E u \in DOMAIN CountsOf(callers["A"].list) \cap DOMAIN CountsOf(callers["B"].list) :
         CountsOf(callers["A"].list)[u] # CountsOf(callers["B"].list)[u]

\* C16: every call of ReportNodeOnlineUsers that waits for the mutex gets it
\* and every call that holds it returns, whatever path it takes (unsupported
\* node type, transport failure, non-success envelope, success); the mutex
\* is free whenever no call is between the lock and the return.
C16_ReportsComplete ==
    /\ \A r \in Reporters :
         /\ (callers[r].pc = "waiting") ~> (callers[r].pc = "locked")
         /\ (callers[r].pc = "locked") ~> (callers[r].pc = "returned")
    /\ [](InSection = {} => ~access)

\* a call waits for the mutex while the other call holds it and has stored
\* its counts
C16_Witness ==
    \E r \in Reporters :
      /\ callers[r].pc = "waiting"
      /\ callers[Other(r)].pc = "stored"
      /\ access

\* no two records of the payload carry the same user id
DistinctIds(users) ==
    \A i, j \in 1..Len(users) : users[i].UID = users[j].UID => i = j

\* C18: when GetUserList for V2ray or Trojan is called twice in a row with
\* the same payload of pairwise distinct user ids, the second call returns
\* the list of the first, with the same limits, and leaves the map as the
\* first call left it.
C18_RepollSame ==
    (Polled /\ again # NoAgain /\ DistinctIds(last.users))
        => /\ again.err = "nil"
           /\ again.UserList = last.UserList
           /\ LastReportOnline = again.online

\* the first poll uses the retained count of one user and removes the entry
\* of another, and the second poll returns the same list
C18_Witness ==
    /\ Polled /\ again # NoAgain /\ DistinctIds(last.users)
    /\ Len(last.users) = 2
    /\ \E i \in 1..2 :
         /\ HoldsSessions(i)
         /\ \E n \in ReturnedFor(i) :
              last.UserList[1][n].DeviceLimit # BaseL(last.users[i])
    /\ \E i \in 1..2 :
         /\ last.users[i].OnlineCount = 0
         /\ last.users[i].UID \in DOMAIN last.online
    /\ again.UserList = last.UserList

====
